---- MODULE Spec2Model ----
(***************************************************************************)
(* The AI Builder backend (appdotbuilder/ai-project-builder): the          *)
(* datastore (users, projects, project_files) and the handlers over it.    *)
(*                                                                         *)
(* A handler is a function of the datastore, its input, the requesting     *)
(* user and the time of the call; it yields the datastore it leaves and    *)
(* what the caller sees (a status: "ok", "null", or the thrown message).   *)
(* The action of a handler applies that function to the current datastore. *)
(*                                                                         *)
(* An optional input field (zod .optional()) is <<>> when absent           *)
(* (undefined) and <<v>> when supplied.                                    *)
(***************************************************************************)
EXTENDS Integers, Sequences, FiniteSets, TLC

VARIABLES db, clock, result, pending, client, chat

vars == <<db, clock, result, pending, client, chat>>

----------------------------------------------------------------------------
(* Bounds of the model *)

\* serial ids handed out by project_files.id
MaxFiles == 4
\* serial ids handed out by projects.id: a created project takes two file ids
\* (its seed directories), so no run creates more projects than this
MaxProjects == MaxFiles \div 2
\* the times at which calls are made (SpecClock); the readings of Date.now()
\* in the browser (SpecClient)
MaxClock == 2
\* the messages sent in the AI assistant panel while it is open
MaxSends == 2
\* serial ids handed out by users.id (SpecAuth)
MaxUsers == 4

(* Values *)

\* SQL NULL / JS null of an integer column (serial ids start at 1)
Null == 0
\* SQL NULL / JS null of a text or json column
NullText == "<null>"

UserIds == {1, 2}
Emails == {"a@x.io", "b@x.io", "c@x.io", "d@x.io", "e@x.io"}
\* registerUserInputSchema: at least 8 characters
Passwords == {"password1", "password2"}
\* loginUserInputSchema: any string
LoginPasswords == Passwords \cup {""}
\* randomBytes(32).toString('hex')
Salts == {"5a17", "c0de"}
Paths == {"", "/src", "/public"}
Contents == {"", "x"}
FileTypes == {"file", "directory"}
Prompts == {"make it"}
GenerationTypes == {"file", "component", "feature", "full_app"}
Environments == {"production", "staging"}

\* the ids a request may name; an id not handed out yet, or of a deleted row,
\* is an id that does not exist
ProjectIdInputs == 1..MaxProjects
FileIdInputs == 1..MaxFiles

Opt(S) == {<<>>} \cup {<<v>> : v \in S}
Supplied(x) == x # <<>>
\* JS truthiness of an optional string: undefined and "" are falsy
TruthyStr(x) == Supplied(x) /\ x[1] # ""

----------------------------------------------------------------------------
(* The datastore: the three tables and their serial sequences *)

usersTable(d) == d.users
projectsTable(d) == d.projects
projectFilesTable(d) == d.project_files

\* a handler's outcome: the datastore it leaves and what the caller sees
Throw(d, msg) == [db |-> d, status |-> msg, value |-> <<>>]
Return(d, v) == [db |-> d, status |-> "ok", value |-> <<v>>]
ReturnNull(d) == [db |-> d, status |-> "null", value |-> <<>>]

\* project_files.parent_id references project_files.id (no ON DELETE action):
\* the statement fails when it would leave a dangling parent_id
ParentFkHolds(rows) ==
  \A f \in rows : f.parent_id # Null => \E g \in rows : g.id = f.parent_id

\* project_files.project_id references projects.id
ProjectFkHolds(projects, rows) ==
  \A f \in rows : \E p \in projects : p.id = f.project_id

DbError == "foreign key constraint violated"

\* an insert into a table whose columns reference nothing
InsertFilesUnchecked(d, values, now) ==
  LET n == Cardinality(values)
      ids == d.nextFileId .. (d.nextFileId + n - 1)
      numbered == CHOOSE f \in [ids -> values] :
                    /\ \A i, j \in ids : i # j => f[i] # f[j]
                    /\ \A i, j \in ids : i < j => f[i].ord < f[j].ord
      rows == {[id |-> i,
                project_id |-> numbered[i].project_id,
                path |-> numbered[i].path,
                content |-> numbered[i].content,
                file_type |-> numbered[i].file_type,
                parent_id |-> numbered[i].parent_id,
                created_at |-> now,
                updated_at |-> now] : i \in ids}
  IN [ok |-> TRUE, rows |-> rows,
      db |-> [d EXCEPT !.project_files = d.project_files \cup rows,
                       !.nextFileId = d.nextFileId + n]]

\* db.insert(projectFilesTable).values(rows)
InsertFiles(d, values, now) ==
  LET n == Cardinality(values)
      ids == d.nextFileId .. (d.nextFileId + n - 1)
      \* rows get consecutive serial ids in the order of the values list
      numbered == CHOOSE f \in [ids -> values] :
                    /\ \A i, j \in ids : i # j => f[i] # f[j]
                    /\ \A i, j \in ids : i < j => f[i].ord < f[j].ord
      rows == {[id |-> i,
                project_id |-> numbered[i].project_id,
                path |-> numbered[i].path,
                content |-> numbered[i].content,
                file_type |-> numbered[i].file_type,
                parent_id |-> numbered[i].parent_id,
                created_at |-> now,
                updated_at |-> now] : i \in ids}
      after == d.project_files \cup rows
  IN IF ParentFkHolds(after) /\ ProjectFkHolds(d.projects, after)
       THEN [ok |-> TRUE, rows |-> rows,
             db |-> [d EXCEPT !.project_files = after,
                              !.nextFileId = d.nextFileId + n]]
       ELSE [ok |-> FALSE, rows |-> {}, db |-> d]

NewFile(ord, project_id, path, content, file_type, parent_id) ==
  [ord |-> ord, project_id |-> project_id, path |-> path, content |-> content,
   file_type |-> file_type, parent_id |-> parent_id]

----------------------------------------------------------------------------
(* Ownership guard: a project row with that id and that owner *)

\* the same query without the owner condition
ProjectsById(d, projectId, userId) ==
  {p \in d.projects : p.id = projectId}

OwnedProjects(d, projectId, userId) ==
  {p \in d.projects : p.id = projectId /\ p.user_id = userId}

\* the join without the owner condition
FilesById(d, fileId, userId) ==
  {f \in d.project_files :
     f.id = fileId /\ \E p \in d.projects : p.id = f.project_id}

\* project_files inner join projects on project_id, where file id and owner
OwnedFiles(d, fileId, userId) ==
  {f \in d.project_files :
     f.id = fileId /\ \E p \in d.projects : p.id = f.project_id /\ p.user_id = userId}

----------------------------------------------------------------------------
(* Passwords and tokens.  A stored password_hash is modelled by the parts   *)
(* that split(':') yields: <<salt, hash>> for a value hashPassword made.    *)

\* pbkdf2Sync(password, salt, 10000, 64, 'sha512').toString('hex'): distinct
\* for distinct arguments
Pbkdf2(password, salt) == "pbkdf2<" \o password \o "|" \o salt \o ">"

hashPassword(password, salt) == <<salt, Pbkdf2(password, salt)>>

verifyPassword(password, hashedPassword) ==
  LET \* const [salt, hash] = hashedPassword.split(':')
      salt == IF Len(hashedPassword) >= 1 THEN hashedPassword[1] ELSE ""
      hash == IF Len(hashedPassword) >= 2 THEN hashedPassword[2] ELSE ""
  IN IF salt = "" \/ hash = ""
       THEN FALSE
       \* equal length and timingSafeEqual of the decoded bytes
       ELSE hash = Pbkdf2(password, salt)

\* 24 * 60 * 60
TokenLifetime == 86400

generateToken(payload, now) ==
  [userId |-> payload.userId, email |-> payload.email,
   iat |-> now, exp |-> now + TokenLifetime]

----------------------------------------------------------------------------
(* loginUser *)

\* a variant that tells an unknown email from a wrong password
loginUserTelling(d, input, now) ==
  LET users == {u \in d.users : u.email = input.email}
  IN IF users = {}
       THEN Throw(d, "User not found")
     ELSE
       LET user == CHOOSE u \in users : TRUE
       IN IF ~verifyPassword(input.password, user.password_hash)
            THEN Throw(d, "Invalid email or password")
            ELSE Return(d, [user |-> user,
                            token |-> generateToken([userId |-> user.id,
                                                     email |-> user.email], now)])

loginUser(d, input, now) ==
  LET users == {u \in d.users : u.email = input.email}
  IN IF users = {}
       THEN Throw(d, "Invalid email or password")
     ELSE
       LET user == CHOOSE u \in users : TRUE
       IN IF ~verifyPassword(input.password, user.password_hash)
            THEN Throw(d, "Invalid email or password")
            ELSE Return(d, [user |-> user,
                            token |-> generateToken([userId |-> user.id,
                                                     email |-> user.email], now)])

----------------------------------------------------------------------------
(* registerUser: hashes the password, refuses an email that is stored,      *)
(* inserts the user and returns it with a token                             *)

\* users.email is unique
EmailUnique(users) ==
  \A u, v \in users : u.email = v.email => u.id = v.id

\* a variant that leaves the duplicate to the unique constraint
registerUserUnchecked(d, input, salt, now) ==
  LET user == [id |-> d.nextUserId,
               email |-> input.email,
               password_hash |-> hashPassword(input.password, salt),
               name |-> input.name,
               created_at |-> now,
               updated_at |-> now]
      after == d.users \cup {user}
  IN IF EmailUnique(after)
       THEN Return([d EXCEPT !.users = after, !.nextUserId = d.nextUserId + 1],
                   [user |-> user,
                    token |-> generateToken([userId |-> user.id,
                                             email |-> user.email], now)])
       ELSE Throw(d, DbError)

registerUser(d, input, salt, now) ==
  IF \E u \in d.users : u.email = input.email
    THEN Throw(d, "Email already exists")
    ELSE
      LET user == [id |-> d.nextUserId,
                   email |-> input.email,
                   password_hash |-> hashPassword(input.password, salt),
                   name |-> input.name,
                   created_at |-> now,
                   updated_at |-> now]
          after == d.users \cup {user}
      IN IF EmailUnique(after)
           THEN Return([d EXCEPT !.users = after, !.nextUserId = d.nextUserId + 1],
                       [user |-> user,
                        token |-> generateToken([userId |-> user.id,
                                                 email |-> user.email], now)])
           ELSE Throw(d, DbError)

----------------------------------------------------------------------------
(* createProject *)

\* a variant that seeds '/src' only
createProjectSrcOnly(d, input, now, seedInsertFails) ==
  IF ~\E u \in d.users : u.id = input.user_id
    THEN Throw(d, "User with id does not exist")
    ELSE
      LET project == [id |-> d.nextProjectId,
                      name |-> input.name,
                      description |-> IF input.description \in {NullText, ""}
                                        THEN NullText ELSE input.description,
                      user_id |-> input.user_id,
                      metadata |-> IF Supplied(input.metadata)
                                     THEN input.metadata[1] ELSE NullText,
                      created_at |-> now,
                      updated_at |-> now]
          d1 == [d EXCEPT !.projects = d.projects \cup {project},
                          !.nextProjectId = d.nextProjectId + 1]
          seeded == InsertFiles(d1,
                      {NewFile(1, project.id, "/src", "", "directory", Null)}, now)
      IN IF seeded.ok /\ ~seedInsertFails
           THEN Return(seeded.db, project)
           ELSE Throw(d1, DbError)

\* a variant that runs its statements in one transaction
createProjectInTransaction(d, input, now, seedInsertFails) ==
  IF ~\E u \in d.users : u.id = input.user_id
    THEN Throw(d, "User with id does not exist")
    ELSE
      LET project == [id |-> d.nextProjectId,
                      name |-> input.name,
                      description |-> IF input.description \in {NullText, ""}
                                        THEN NullText ELSE input.description,
                      user_id |-> input.user_id,
                      metadata |-> IF Supplied(input.metadata)
                                     THEN input.metadata[1] ELSE NullText,
                      created_at |-> now,
                      updated_at |-> now]
          d1 == [d EXCEPT !.projects = d.projects \cup {project},
                          !.nextProjectId = d.nextProjectId + 1]
          seeded == InsertFiles(d1,
                      {NewFile(1, project.id, "/src", "", "directory", Null),
                       NewFile(2, project.id, "/public", "", "directory", Null)},
                      now)
      IN IF seeded.ok /\ ~seedInsertFails
           THEN Return(seeded.db, project)
           \* the serial id is used up; the row is not kept
           ELSE Throw([d EXCEPT !.nextProjectId = d.nextProjectId + 1], DbError)

\* seedInsertFails: the datastore rejects the second statement (the connection
\* is lost, the statement times out); nothing undoes the first
createProject(d, input, now, seedInsertFails) ==
  IF ~\E u \in d.users : u.id = input.user_id
    THEN Throw(d, "User with id does not exist")
    ELSE
      LET project == [id |-> d.nextProjectId,
                      name |-> input.name,
                      \* input.description || null
                      description |-> IF input.description \in {NullText, ""}
                                        THEN NullText ELSE input.description,
                      user_id |-> input.user_id,
                      \* input.metadata || null
                      metadata |-> IF Supplied(input.metadata)
                                     THEN input.metadata[1] ELSE NullText,
                      created_at |-> now,
                      updated_at |-> now]
          d1 == [d EXCEPT !.projects = d.projects \cup {project},
                          !.nextProjectId = d.nextProjectId + 1]
          seeded == InsertFiles(d1,
                      {NewFile(1, project.id, "/src", "", "directory", Null),
                       NewFile(2, project.id, "/public", "", "directory", Null)},
                      now)
      IN IF seeded.ok /\ ~seedInsertFails
           THEN Return(seeded.db, project)
           ELSE Throw(d1, DbError)

----------------------------------------------------------------------------
(* createProjectFile: checks in order the ownership guard, the path's       *)
(* uniqueness in the project, the parent; then inserts the row              *)

\* the rows with that path in any project
FilesAtPathAnywhere(d, projectId, path) ==
  {f \in d.project_files : f.path = path}

\* the rows of the project with that path
FilesAtPath(d, projectId, path) ==
  {f \in d.project_files : f.project_id = projectId /\ f.path = path}

\* the rows with that id in any project
ParentRowsAnywhere(d, projectId, parentId) ==
  {f \in d.project_files : f.id = parentId}

\* the rows of the project with that id
ParentRows(d, projectId, parentId) ==
  {f \in d.project_files : f.id = parentId /\ f.project_id = projectId}

\* a variant that looks at the parent before the path
createProjectFileParentFirst(d, input, userId, now) ==
  IF OwnedProjects(d, input.project_id, userId) = {}
    THEN Throw(d, "Project not found or access denied")
  ELSE IF input.parent_id # Null
          /\ ParentRows(d, input.project_id, input.parent_id) = {}
    THEN Throw(d, "Parent directory not found")
  ELSE IF input.parent_id # Null
          /\ \E f \in ParentRows(d, input.project_id, input.parent_id) :
                f.file_type # "directory"
    THEN Throw(d, "Parent must be a directory")
  ELSE IF FilesAtPath(d, input.project_id, input.path) # {}
    THEN Throw(d, "File path already exists")
  ELSE
    LET ins == InsertFiles(d, {NewFile(1, input.project_id, input.path, input.content,
                                       input.file_type, input.parent_id)}, now)
    IN IF ins.ok THEN Return(ins.db, CHOOSE f \in ins.rows : TRUE)
                 ELSE Throw(d, DbError)

createProjectFile(d, input, userId, now) ==
  IF OwnedProjects(d, input.project_id, userId) = {}
    THEN Throw(d, "Project not found or access denied")
  ELSE IF FilesAtPath(d, input.project_id, input.path) # {}
    THEN Throw(d, "File path already exists")
  ELSE IF input.parent_id # Null
          /\ ParentRows(d, input.project_id, input.parent_id) = {}
    THEN Throw(d, "Parent directory not found")
  ELSE IF input.parent_id # Null
          /\ \E f \in ParentRows(d, input.project_id, input.parent_id) :
                f.file_type # "directory"
    THEN Throw(d, "Parent must be a directory")
  ELSE
    LET ins == InsertFiles(d, {NewFile(1, input.project_id, input.path, input.content,
                                       input.file_type, input.parent_id)}, now)
    IN IF ins.ok THEN Return(ins.db, CHOOSE f \in ins.rows : TRUE)
                 ELSE Throw(d, DbError)

----------------------------------------------------------------------------
(* updateProjectFile *)

\* a variant that leaves updated_at to the column default, which applies to
\* inserts only
updateProjectFileNoStamp(d, input, userId, now) ==
  LET existingFileQuery == OwnedFiles(d, input.id, userId)
  IN IF existingFileQuery = {}
       THEN Throw(d, "File not found or access denied")
     ELSE
       LET existingFile == CHOOSE f \in existingFileQuery : TRUE
           conflictingFiles ==
             {f \in d.project_files :
                f.project_id = existingFile.project_id /\ f.path = input.path[1]}
       IN IF TruthyStr(input.path) /\ input.path[1] # existingFile.path
             /\ conflictingFiles # {}
            THEN Throw(d, "A file with this path already exists in the project")
          ELSE
            LET updated ==
                  [existingFile EXCEPT
                     !.path = IF Supplied(input.path) THEN input.path[1] ELSE @,
                     !.content = IF Supplied(input.content) THEN input.content[1] ELSE @,
                     !.file_type = IF Supplied(input.file_type) THEN input.file_type[1] ELSE @,
                     !.parent_id = IF Supplied(input.parent_id) THEN input.parent_id[1] ELSE @]
                after == {IF f.id = input.id THEN updated ELSE f : f \in d.project_files}
            IN IF ParentFkHolds(after)
                 THEN Return([d EXCEPT !.project_files = after], updated)
                 ELSE Throw(d, DbError)

\* a variant that writes every column, taking '' and null for absent fields
updateProjectFileAllColumns(d, input, userId, now) ==
  LET existingFileQuery == OwnedFiles(d, input.id, userId)
  IN IF existingFileQuery = {}
       THEN Throw(d, "File not found or access denied")
     ELSE
       LET existingFile == CHOOSE f \in existingFileQuery : TRUE
           updated ==
             [existingFile EXCEPT
                !.updated_at = now,
                !.path = IF Supplied(input.path) THEN input.path[1] ELSE @,
                !.content = IF Supplied(input.content) THEN input.content[1] ELSE "",
                !.file_type = IF Supplied(input.file_type) THEN input.file_type[1] ELSE @,
                !.parent_id = IF Supplied(input.parent_id) THEN input.parent_id[1] ELSE Null]
           after == {IF f.id = input.id THEN updated ELSE f : f \in d.project_files}
       IN IF ParentFkHolds(after)
            THEN Return([d EXCEPT !.project_files = after], updated)
            ELSE Throw(d, DbError)

\* a variant that moves the row into the project of the parent it is given
updateProjectFileIntoParentProject(d, input, userId, now) ==
  LET existingFileQuery == OwnedFiles(d, input.id, userId)
  IN IF existingFileQuery = {}
       THEN Throw(d, "File not found or access denied")
     ELSE
       LET existingFile == CHOOSE f \in existingFileQuery : TRUE
           conflictingFiles ==
             {f \in d.project_files :
                f.project_id = existingFile.project_id /\ f.path = input.path[1]}
           parents == IF Supplied(input.parent_id)
                        THEN {f \in d.project_files : f.id = input.parent_id[1]}
                        ELSE {}
       IN IF TruthyStr(input.path) /\ input.path[1] # existingFile.path
             /\ conflictingFiles # {}
            THEN Throw(d, "A file with this path already exists in the project")
          ELSE
            LET updated ==
                  [existingFile EXCEPT
                     !.updated_at = now,
                     !.project_id = IF parents # {}
                                      THEN (CHOOSE f \in parents : TRUE).project_id ELSE @,
                     !.path = IF Supplied(input.path) THEN input.path[1] ELSE @,
                     !.content = IF Supplied(input.content) THEN input.content[1] ELSE @,
                     !.file_type = IF Supplied(input.file_type) THEN input.file_type[1] ELSE @,
                     !.parent_id = IF Supplied(input.parent_id) THEN input.parent_id[1] ELSE @]
                after == {IF f.id = input.id THEN updated ELSE f : f \in d.project_files}
            IN IF ParentFkHolds(after)
                 THEN Return([d EXCEPT !.project_files = after], updated)
                 ELSE Throw(d, DbError)

updateProjectFile(d, input, userId, now) ==
  LET existingFileQuery == OwnedFiles(d, input.id, userId)
  IN IF existingFileQuery = {}
       THEN Throw(d, "File not found or access denied")
     ELSE
       LET existingFile == CHOOSE f \in existingFileQuery : TRUE
           conflictingFiles ==
             {f \in d.project_files :
                f.project_id = existingFile.project_id /\ f.path = input.path[1]}
       IN \* if (input.path && input.path !== existingFile.path)
          IF TruthyStr(input.path) /\ input.path[1] # existingFile.path
             /\ conflictingFiles # {}
            THEN Throw(d, "A file with this path already exists in the project")
          ELSE
            LET updated ==
                  [existingFile EXCEPT
                     !.updated_at = now,
                     !.path = IF Supplied(input.path) THEN input.path[1] ELSE @,
                     !.content = IF Supplied(input.content) THEN input.content[1] ELSE @,
                     !.file_type = IF Supplied(input.file_type) THEN input.file_type[1] ELSE @,
                     !.parent_id = IF Supplied(input.parent_id) THEN input.parent_id[1] ELSE @]
                after == {IF f.id = input.id THEN updated ELSE f : f \in d.project_files}
            IN IF ParentFkHolds(after)
                 THEN Return([d EXCEPT !.project_files = after], updated)
                 ELSE Throw(d, DbError)

----------------------------------------------------------------------------
(* deleteProjectFile *)

\* no row at all
NoRows(d, fileId) == {}

\* select from project_files where parent_id = fileId
ChildrenOf(d, fileId) == {f \in d.project_files : f.parent_id = fileId}

deleteProjectFile(d, fileId, userId) ==
  LET fileWithProject == OwnedFiles(d, fileId, userId)
  IN IF fileWithProject = {}
       THEN Throw(d, "File not found or access denied")
     ELSE
       LET fileData == CHOOSE f \in fileWithProject : TRUE
           children == ChildrenOf(d, fileId)
           after == {f \in d.project_files : f.id # fileId}
       IN IF fileData.file_type = "directory" /\ children # {}
            THEN Throw(d, "Cannot delete directory that contains files or subdirectories")
          ELSE IF ParentFkHolds(after)
            \* result.rowCount > 0
            THEN Return([d EXCEPT !.project_files = after], TRUE)
            ELSE Throw(d, DbError)

----------------------------------------------------------------------------
(* deleteProject: the project row goes and, by ON DELETE CASCADE, its files *)

\* a variant whose delete statement has the owner condition only
deleteProjectsOfUser(d, projectId, userId) ==
  IF OwnedProjects(d, projectId, userId) = {}
    THEN Throw(d, "Project not found or unauthorized")
    ELSE
      LET projects == {p \in d.projects : p.user_id # userId}
          after == {f \in d.project_files : \E p \in projects : p.id = f.project_id}
      IN IF ParentFkHolds(after)
           THEN Return([d EXCEPT !.projects = projects, !.project_files = after], TRUE)
           ELSE Throw(d, DbError)

deleteProject(d, projectId, userId) ==
  IF OwnedProjects(d, projectId, userId) = {}
    THEN Throw(d, "Project not found or unauthorized")
    ELSE
      LET projects == {p \in d.projects : ~(p.id = projectId /\ p.user_id = userId)}
          after == {f \in d.project_files : \E p \in projects : p.id = f.project_id}
      IN IF ParentFkHolds(after)
           THEN Return([d EXCEPT !.projects = projects, !.project_files = after], TRUE)
           ELSE Throw(d, DbError)

----------------------------------------------------------------------------
(* updateProject: the ownership guard, then the supplied fields *)

\* a variant that writes every column, taking null for absent fields
updateProjectAllColumns(d, input, userId, now) ==
  LET owned == OwnedProjects(d, input.id, userId)
  IN IF owned = {}
       THEN Throw(d, "Project not found or access denied")
     ELSE
       LET project == CHOOSE p \in owned : TRUE
           updated ==
             [project EXCEPT
                !.updated_at = now,
                !.name = IF Supplied(input.name) THEN input.name[1] ELSE @,
                !.description = IF Supplied(input.description)
                                  THEN input.description[1] ELSE NullText,
                !.metadata = IF Supplied(input.metadata) THEN input.metadata[1] ELSE NullText]
       IN Return([d EXCEPT !.projects =
                    {IF p.id = input.id THEN updated ELSE p : p \in d.projects}],
                 updated)

updateProject(d, input, userId, now) ==
  LET owned == OwnedProjects(d, input.id, userId)
  IN IF owned = {}
       THEN Throw(d, "Project not found or access denied")
     ELSE
       LET project == CHOOSE p \in owned : TRUE
           updated ==
             [project EXCEPT
                !.updated_at = now,
                !.name = IF Supplied(input.name) THEN input.name[1] ELSE @,
                !.description = IF Supplied(input.description)
                                  THEN input.description[1] ELSE @,
                !.metadata = IF Supplied(input.metadata) THEN input.metadata[1] ELSE @]
       IN Return([d EXCEPT !.projects =
                    {IF p.id = input.id THEN updated ELSE p : p \in d.projects}],
                 updated)

----------------------------------------------------------------------------
(* generateWithAi *)

\* filePath.split('.').pop()?.toLowerCase() of the paths of the model
Extension(filePath) ==
  CASE filePath = "/a.ts" -> "ts"
    [] OTHER -> filePath

generateFile(prompt, filePath) ==
  LET extension == IF TruthyStr(filePath) THEN Extension(filePath[1]) ELSE "js"
  IN CASE extension \in {"ts", "tsx"} -> "// Generated TypeScript file"
       [] extension \in {"js", "jsx"} -> "// Generated JavaScript file"
       [] extension = "css" -> "/* Generated CSS */"
       [] OTHER -> "// Generated file"

generateWithAi(d, input, userId, now) ==
  IF OwnedProjects(d, input.project_id, userId) = {}
    THEN Throw(d, "Project not found or access denied")
  ELSE IF input.generation_type \notin {"file", "component", "feature", "full_app"}
    THEN Throw(d, "Unsupported generation type")
  ELSE
    LET generated_content ==
          CASE input.generation_type = "file" -> generateFile(input.prompt, input.file_path)
            [] input.generation_type = "component" -> "// Generated component"
            [] input.generation_type = "feature" -> "// Generated feature"
            [] OTHER -> "// Generated full application"
        existingFiles ==
          {f \in d.project_files :
             f.project_id = input.project_id /\ f.path = input.file_path[1]}
    IN \* if (input.file_path && input.generation_type === 'file')
       IF TruthyStr(input.file_path) /\ input.generation_type = "file"
          /\ existingFiles = {}
         THEN LET ins == InsertFiles(d, {NewFile(1, input.project_id, input.file_path[1],
                                                 generated_content, "file", Null)}, now)
              IN IF ins.ok
                   THEN Return(ins.db, [saved |-> TRUE,
                                        generated_content |-> generated_content])
                   ELSE Throw(d, DbError)
         ELSE Return(d, [saved |-> FALSE, generated_content |-> generated_content])

----------------------------------------------------------------------------
(* deployProject *)

deployProject(d, input, userId) ==
  IF OwnedProjects(d, input.project_id, userId) = {}
    THEN Throw(d, "Project not found or access denied")
  ELSE IF {f \in d.project_files : f.project_id = input.project_id} = {}
    THEN Throw(d, "No files found in project - cannot deploy empty project")
  ELSE Return(d, input.environment)

----------------------------------------------------------------------------
(* The handlers statement by statement.  A handler is an async function:  *)
(* each awaited datastore statement is one step, and between two steps of *)
(* a request the steps of other requests may run.  No handler opens a      *)
(* transaction.  A request in flight is its handler (op), the statement it *)
(* runs next (pc), its caller and input, and the row it has read (row).    *)

\* the requests that may be in flight together
Slots == {1, 2}

NoRequest == [op |-> "none"]

NewRequest(op, input, userId) ==
  [op |-> op, pc |-> "begin", userId |-> userId, input |-> input, row |-> <<>>]

\* the request goes on to its next statement
Goto(d, r, pc) == [db |-> d, next |-> [r EXCEPT !.pc = pc], status |-> "running"]
\* the request ends: it returns ("ok") or throws
Finish(d, status) == [db |-> d, next |-> NoRequest, status |-> status]

\* a variant whose update statement applies only while no other row of the
\* project has the new path
updateProjectFileStepChecked(d, r, now) ==
  LET input == r.input
  IN CASE r.pc = "begin" ->
            LET existingFileQuery == OwnedFiles(d, input.id, r.userId)
            IN IF existingFileQuery = {}
                 THEN Finish(d, "File not found or access denied")
                 ELSE LET existingFile == CHOOSE f \in existingFileQuery : TRUE
                          q == [r EXCEPT !.row = <<existingFile>>]
                      IN IF TruthyStr(input.path) /\ input.path[1] # existingFile.path
                           THEN Goto(d, q, "conflict")
                           ELSE Goto(d, q, "update")
       [] r.pc = "conflict" ->
            IF \E f \in d.project_files :
                 f.project_id = r.row[1].project_id /\ f.path = input.path[1]
              THEN Finish(d, "A file with this path already exists in the project")
              ELSE Goto(d, r, "update")
       [] OTHER ->
            LET after ==
                  {IF f.id = input.id
                     THEN [f EXCEPT
                             !.updated_at = now,
                             !.path = IF Supplied(input.path) THEN input.path[1] ELSE @,
                             !.content = IF Supplied(input.content) THEN input.content[1] ELSE @,
                             !.file_type = IF Supplied(input.file_type) THEN input.file_type[1] ELSE @,
                             !.parent_id = IF Supplied(input.parent_id) THEN input.parent_id[1] ELSE @]
                     ELSE f : f \in d.project_files}
            IN IF /\ Supplied(input.path)
                  /\ \E f, g \in after :
                       f.id = input.id /\ g.id # f.id
                       /\ g.project_id = f.project_id /\ g.path = f.path
                 THEN Finish(d, DbError)
               ELSE IF ParentFkHolds(after)
                 THEN Finish([d EXCEPT !.project_files = after], "ok")
                 ELSE Finish(d, DbError)

\* updateProjectFile: the joined select, the conflict select when a new
\* (non-empty) path is given, the update
updateProjectFileStep(d, r, now) ==
  LET input == r.input
  IN CASE r.pc = "begin" ->
            LET existingFileQuery == OwnedFiles(d, input.id, r.userId)
            IN IF existingFileQuery = {}
                 THEN Finish(d, "File not found or access denied")
                 ELSE LET existingFile == CHOOSE f \in existingFileQuery : TRUE
                          q == [r EXCEPT !.row = <<existingFile>>]
                      IN IF TruthyStr(input.path) /\ input.path[1] # existingFile.path
                           THEN Goto(d, q, "conflict")
                           ELSE Goto(d, q, "update")
       [] r.pc = "conflict" ->
            IF \E f \in d.project_files :
                 f.project_id = r.row[1].project_id /\ f.path = input.path[1]
              THEN Finish(d, "A file with this path already exists in the project")
              ELSE Goto(d, r, "update")
       [] OTHER ->
            \* update ... where id = input.id: no row is written when the row
            \* has gone meanwhile, and the handler returns result[0]
            LET after ==
                  {IF f.id = input.id
                     THEN [f EXCEPT
                             !.updated_at = now,
                             !.path = IF Supplied(input.path) THEN input.path[1] ELSE @,
                             !.content = IF Supplied(input.content) THEN input.content[1] ELSE @,
                             !.file_type = IF Supplied(input.file_type) THEN input.file_type[1] ELSE @,
                             !.parent_id = IF Supplied(input.parent_id) THEN input.parent_id[1] ELSE @]
                     ELSE f : f \in d.project_files}
            IN IF ParentFkHolds(after)
                 THEN Finish([d EXCEPT !.project_files = after], "ok")
                 ELSE Finish(d, DbError)

\* generateWithAi: the project select, the generation, the select of the
\* rows at file_path, the insert
generateWithAiStep(d, r, now) ==
  LET input == r.input
  IN CASE r.pc = "begin" ->
            IF OwnedProjects(d, input.project_id, r.userId) = {}
              THEN Finish(d, "Project not found or access denied")
            ELSE IF TruthyStr(input.file_path) /\ input.generation_type = "file"
              THEN Goto(d, r, "existing")
              ELSE Finish(d, "ok")
       [] r.pc = "existing" ->
            IF \E f \in d.project_files :
                 f.project_id = input.project_id /\ f.path = input.file_path[1]
              THEN Finish(d, "ok")
              ELSE Goto(d, r, "insert")
       [] OTHER ->
            LET ins == InsertFiles(d, {NewFile(1, input.project_id, input.file_path[1],
                                               generateFile(input.prompt, input.file_path),
                                               "file", Null)}, now)
            IN IF ins.ok THEN Finish(ins.db, "ok") ELSE Finish(d, DbError)

\* createProjectFile: the project select, the select of the rows at path,
\* the parent select when parent_id is given, the insert
createProjectFileStep(d, r, now) ==
  LET input == r.input
  IN CASE r.pc = "begin" ->
            IF OwnedProjects(d, input.project_id, r.userId) = {}
              THEN Finish(d, "Project not found or access denied")
              ELSE Goto(d, r, "existing")
       [] r.pc = "existing" ->
            IF FilesAtPath(d, input.project_id, input.path) # {}
              THEN Finish(d, "File path already exists")
            ELSE IF input.parent_id # Null
              THEN Goto(d, r, "parent")
              ELSE Goto(d, r, "insert")
       [] r.pc = "parent" ->
            IF ParentRows(d, input.project_id, input.parent_id) = {}
              THEN Finish(d, "Parent directory not found")
            ELSE IF \E f \in ParentRows(d, input.project_id, input.parent_id) :
                      f.file_type # "directory"
              THEN Finish(d, "Parent must be a directory")
              ELSE Goto(d, r, "insert")
       [] OTHER ->
            LET ins == InsertFiles(d, {NewFile(1, input.project_id, input.path,
                                               input.content, input.file_type,
                                               input.parent_id)}, now)
            IN IF ins.ok THEN Finish(ins.db, "ok") ELSE Finish(d, DbError)

\* a variant that looks for children again in its delete step
deleteProjectFileStepChecked(d, r, now) ==
  CASE r.pc = "begin" ->
         LET fileWithProject == OwnedFiles(d, r.input, r.userId)
         IN IF fileWithProject = {}
              THEN Finish(d, "File not found or access denied")
            ELSE IF \E f \in fileWithProject : f.file_type = "directory"
              THEN Goto(d, r, "children")
              ELSE Goto(d, r, "delete")
    [] r.pc = "children" ->
         IF ChildrenOf(d, r.input) # {}
           THEN Finish(d, "Cannot delete directory that contains files or subdirectories")
           ELSE Goto(d, r, "delete")
    [] OTHER ->
         LET after == {f \in d.project_files : f.id # r.input}
         IN IF ChildrenOf(d, r.input) # {}
              THEN Finish(d, "Cannot delete directory that contains files or subdirectories")
            ELSE IF ParentFkHolds(after)
              THEN Finish([d EXCEPT !.project_files = after], "ok")
              ELSE Finish(d, DbError)

\* deleteProjectFile: the joined select, the children select for a
\* directory, the delete
deleteProjectFileStep(d, r, now) ==
  CASE r.pc = "begin" ->
         LET fileWithProject == OwnedFiles(d, r.input, r.userId)
         IN IF fileWithProject = {}
              THEN Finish(d, "File not found or access denied")
            ELSE IF \E f \in fileWithProject : f.file_type = "directory"
              THEN Goto(d, r, "children")
              ELSE Goto(d, r, "delete")
    [] r.pc = "children" ->
         IF ChildrenOf(d, r.input) # {}
           THEN Finish(d, "Cannot delete directory that contains files or subdirectories")
           ELSE Goto(d, r, "delete")
    [] OTHER ->
         \* delete ... where id = fileId: the datastore rejects it while a
         \* row's parent_id refers to the row
         LET after == {f \in d.project_files : f.id # r.input}
         IN IF ParentFkHolds(after)
              THEN Finish([d EXCEPT !.project_files = after], "ok")
              ELSE Finish(d, DbError)

\* deleteProject: the select, the delete (which cascades to the files)
deleteProjectStep(d, r, now) ==
  CASE r.pc = "begin" ->
         IF OwnedProjects(d, r.input, r.userId) = {}
           THEN Finish(d, "Project not found or unauthorized")
           ELSE Goto(d, r, "delete")
    [] OTHER ->
         LET projects == {p \in d.projects : ~(p.id = r.input /\ p.user_id = r.userId)}
             after == {f \in d.project_files : \E p \in projects : p.id = f.project_id}
         IN IF ParentFkHolds(after)
              THEN Finish([d EXCEPT !.projects = projects, !.project_files = after], "ok")
              ELSE Finish(d, DbError)

\* the next statement of a request in flight
Step(d, r, now) ==
  CASE r.op = "updateProjectFile" -> updateProjectFileStep(d, r, now)
    [] r.op = "generateWithAi" -> generateWithAiStep(d, r, now)
    [] r.op = "createProjectFile" -> createProjectFileStep(d, r, now)
    [] r.op = "deleteProjectFile" -> deleteProjectFileStep(d, r, now)
    [] OTHER -> deleteProjectStep(d, r, now)

----------------------------------------------------------------------------
(* The client: App (navigation) and AiAssistant (the chat of the panel)    *)

\* localStorage.getItem('user') of a key that is not stored
NoItem == <<>>

\* JSON.stringify(user): a text
JSONstringify(user) == <<"{", user, "}">>

\* JSON.parse(text): <<value>>, or <<>> when it throws a SyntaxError
JSONparse(text) ==
  IF Len(text) = 3 /\ text[1] = "{" /\ text[3] = "}" THEN <<text[2]>> ELSE <<>>

\* the effect run once on load: the stored user, if any, is taken
useEffectOnLoad(c) ==
  LET storedUser == c.localStorage
  IN IF storedUser = NoItem
       THEN c
     ELSE IF JSONparse(storedUser) # <<>>
       THEN [c EXCEPT !.user = JSONparse(storedUser)[1], !.appState = "dashboard"]
       ELSE [c EXCEPT !.localStorage = NoItem]

handleLogin(c, user) ==
  [c EXCEPT !.user = user,
            !.localStorage = JSONstringify(user),
            !.appState = "dashboard"]

\* a variant that leaves the current project in place
handleLogoutKeepsProject(c) ==
  [c EXCEPT !.user = Null,
            !.localStorage = NoItem,
            !.appState = "auth"]

handleLogout(c) ==
  [c EXCEPT !.user = Null,
            !.currentProject = Null,
            !.localStorage = NoItem,
            !.appState = "auth"]

handleProjectSelect(c, project) ==
  [c EXCEPT !.currentProject = project, !.appState = "workspace"]

handleBackToDashboard(c) ==
  [c EXCEPT !.currentProject = Null, !.appState = "dashboard"]

\* the panel is closed: no AiAssistant is mounted
NoChat == [open |-> FALSE]

\* the id of the welcome message
WelcomeId == 1
\* Date.now() is far past 1: no reading is the welcome message's id
FirstReading == WelcomeId + 1

GeneratingText == "Generating your request..."

\* useState of a mounted AiAssistant; time is the last reading of Date.now()
NewChat ==
  [open |-> TRUE,
   messages |-> <<[id |-> WelcomeId, type |-> "system", content |-> "Welcome",
                   status |-> "none"]>>,
   isGenerating |-> FALSE,
   generatingMessageId |-> Null,
   time |-> FirstReading,
   sends |-> 0]

\* addMessage, where Date.now() reads now
addMessage(ch, message, now) ==
  [ch EXCEPT !.messages =
     Append(@, [id |-> now, type |-> message.type, content |-> message.content,
                status |-> message.status])]

\* handleSendMessage up to its await; Date.now() is read three times: for the
\* id of the user's message (t1), for generatingMessageId (t2) and for the id
\* of the placeholder (t3)
handleSendMessage(ch, inputMessage, t1, t2, t3) ==
  IF inputMessage = "" \/ ch.isGenerating
    THEN ch
    ELSE
      LET withUser == addMessage(ch, [type |-> "user", content |-> inputMessage,
                                      status |-> "none"], t1)
          withBoth == addMessage(withUser, [type |-> "assistant",
                                            content |-> GeneratingText,
                                            status |-> "generating"], t3)
      IN [withBoth EXCEPT !.generatingMessageId = t2,
                          !.isGenerating = TRUE,
                          !.time = t3,
                          !.sends = @ + 1]

\* handleSendMessage after its await: the response (status 'success') or the
\* rejection (status 'error') goes into the messages whose id is
\* generatingMessageId
handleSendMessageSettled(ch, content, status) ==
  [ch EXCEPT !.messages =
               [i \in DOMAIN ch.messages |->
                  IF ch.messages[i].id = ch.generatingMessageId
                    THEN [ch.messages[i] EXCEPT !.content = content, !.status = status]
                    ELSE ch.messages[i]],
             !.isGenerating = FALSE]

----------------------------------------------------------------------------
(* The reads *)

\* the projects of the user, ordered by updated_at descending; rows with the
\* same updated_at come in any order (here: by id)
OrderedProjects(rows) ==
  LET n == Cardinality(rows)
      Before(p, q) == \/ p.updated_at > q.updated_at
                      \/ p.updated_at = q.updated_at /\ p.id < q.id
  IN CHOOSE s \in [1..n -> rows] :
       /\ \A i, j \in 1..n : i # j => s[i] # s[j]
       /\ \A i, j \in 1..n : i < j => Before(s[i], s[j])

\* every stored project
getAllProjects(d, userId) ==
  Return(d, OrderedProjects(d.projects))

getProjects(d, userId) ==
  Return(d, OrderedProjects({p \in d.projects : p.user_id = userId}))

getProjectById(d, projectId, userId) ==
  LET results == OwnedProjects(d, projectId, userId)
  IN IF results = {} THEN ReturnNull(d) ELSE Return(d, CHOOSE p \in results : TRUE)

\* a variant that returns the joined row whoever owns the project
getProjectFileByIdAnyOwner(d, fileId, userId) ==
  LET results == {f \in d.project_files :
                    f.id = fileId /\ \E p \in d.projects : p.id = f.project_id}
  IN IF results = {} THEN ReturnNull(d) ELSE Return(d, CHOOSE f \in results : TRUE)

getProjectFileById(d, fileId, userId) ==
  LET results == {f \in d.project_files :
                    f.id = fileId /\ \E p \in d.projects : p.id = f.project_id}
  IN IF results = {}
       THEN ReturnNull(d)
     ELSE
       LET fileData == CHOOSE f \in results : TRUE
           projectOwner == {p \in d.projects : p.id = fileData.project_id}
       IN IF projectOwner = {} \/ \A p \in projectOwner : p.user_id # userId
            THEN ReturnNull(d)
            ELSE Return(d, fileData)

\* the rows of a select without ORDER BY, as an array; the datastore fixes no
\* order, the model lists them by id
RECURSIVE RowsOf(_)
RowsOf(rows) ==
  IF rows = {}
    THEN <<>>
    ELSE LET first == CHOOSE f \in rows : \A g \in rows : f.id <= g.id
         IN <<first>> \o RowsOf(rows \ {first})

\* a variant whose files query has no project condition
getProjectWithAllFiles(d, projectId, userId) ==
  LET project == OwnedProjects(d, projectId, userId)
  IN IF project = {}
       THEN ReturnNull(d)
       ELSE Return(d, [project |-> CHOOSE p \in project : TRUE,
                       files |-> RowsOf(d.project_files)])

getProjectWithFiles(d, projectId, userId) ==
  LET project == OwnedProjects(d, projectId, userId)
  IN IF project = {}
       THEN ReturnNull(d)
       ELSE Return(d, [project |-> CHOOSE p \in project : TRUE,
                       files |-> RowsOf({f \in d.project_files :
                                           f.project_id = projectId})])

\* text columns compare as strings: the paths of the model in ascending order
PathOrder == <<"", "/a.ts", "/public", "/src">>
PathRank(path) == CHOOSE i \in 1..Len(PathOrder) : PathOrder[i] = path
\* an enum column compares by the position of the label in pgEnum(...)
fileTypeEnum == <<"file", "directory">>
FileTypeRank(t) == CHOOSE i \in 1..Len(fileTypeEnum) : fileTypeEnum[i] = t

\* orderBy(asc(file_type), asc(path)); rows that compare equal keep any order
OrderedFiles(rows) ==
  LET n == Cardinality(rows)
      Before(f, g) == \/ FileTypeRank(f.file_type) < FileTypeRank(g.file_type)
                      \/ /\ f.file_type = g.file_type
                         /\ PathRank(f.path) < PathRank(g.path)
                      \/ /\ f.file_type = g.file_type
                         /\ f.path = g.path
                         /\ f.id < g.id
  IN CHOOSE s \in [1..n -> rows] :
       /\ \A i, j \in 1..n : i # j => s[i] # s[j]
       /\ \A i, j \in 1..n : i < j => Before(s[i], s[j])

getProjectFiles(d, projectId, userId) ==
  IF OwnedProjects(d, projectId, userId) = {}
    THEN Throw(d, "Project not found or access denied")
    ELSE Return(d, OrderedFiles({f \in d.project_files : f.project_id = projectId}))

----------------------------------------------------------------------------
(* Inputs of the calls: every input the schemas admit over the values of   *)
(* the model                                                               *)

CreateProjectInputs ==
  [name : {"P"}, description : {NullText, "", "d"}, user_id : UserIds \cup {3},
   metadata : Opt({"m"})]

UpdateProjectInputs ==
  [id : ProjectIdInputs, name : Opt({"P", "Q"}), description : Opt({NullText, "d"}),
   metadata : Opt({NullText, "m"})]

CreateProjectFileInputs ==
  [project_id : ProjectIdInputs, path : Paths, content : Contents,
   file_type : FileTypes, parent_id : {Null} \cup FileIdInputs]

UpdateProjectFileInputs ==
  [id : FileIdInputs, path : Opt(Paths), content : Opt(Contents),
   file_type : Opt(FileTypes), parent_id : Opt({Null} \cup FileIdInputs)]

AiGenerationRequests ==
  [project_id : ProjectIdInputs, prompt : Prompts, file_path : Opt(Paths),
   generation_type : GenerationTypes]

DeploymentRequests ==
  [project_id : ProjectIdInputs, environment : Environments]

RegisterUserInputs ==
  [email : Emails, password : Passwords, name : {"N"}]

LoginUserInputs ==
  [email : Emails, password : LoginPasswords]

(* The requests the specifications send: a part of the inputs above.      *)
(* Spec changes paths; SpecTree changes types and parents.                 *)

CreateProjectRequests ==
  [name : {"P"}, description : {NullText, ""}, user_id : UserIds \cup {3},
   metadata : {<<>>}]

UpdateProjectRequests ==
  [id : ProjectIdInputs, name : Opt({"P"}), description : {<<>>}, metadata : {<<>>}]

CreateProjectFileRequests ==
  [project_id : ProjectIdInputs, path : {"", "/src"}, content : {"x"},
   file_type : FileTypes, parent_id : {Null, 1}]

\* Spec renames the first two rows (the seed directories of the first project)
UpdateProjectFileRequests ==
  [id : {1, 2}, path : Opt({"", "/src"}), content : {<<>>},
   file_type : {<<>>}, parent_id : {<<>>}]

GenerateRequests ==
  [project_id : ProjectIdInputs, prompt : Prompts, file_path : Opt({"", "/src"}),
   generation_type : GenerationTypes]

\* SpecClock: one user creates projects and edits the seed rows as time passes
ClockCreateProjectRequests ==
  [name : {"P"}, description : {NullText}, user_id : {1}, metadata : {<<>>}]

ClockUpdateProjectFileRequests ==
  [id : {1, 2}, path : {<<>>}, content : Opt({"x"}), file_type : {<<>>},
   parent_id : {<<>>}]

\* SpecProjects: projects with descriptions and metadata are created, edited
\* and deleted; a file is put under the first seed directory
ProjectsCreateProjectRequests ==
  [name : {"P"}, description : {"d"}, user_id : UserIds \cup {3}, metadata : Opt({"m"})]

ProjectsUpdateProjectRequests ==
  [id : ProjectIdInputs, name : Opt({"Q"}), description : {<<>>},
   metadata : Opt({NullText})]

ProjectsCreateProjectFileRequests ==
  [project_id : ProjectIdInputs, path : {""}, content : {"x"}, file_type : {"file"},
   parent_id : {1}]

\* SpecRace: one user's requests on the first project overlap; "/a.ts" is a
\* path no seed directory has
RaceCreateProjectRequests ==
  [name : {"P"}, description : {NullText}, user_id : {1}, metadata : {<<>>}]

RaceUpdateProjectFileRequests ==
  [id : {1, 2}, path : Opt({"/a.ts"}), content : {<<>>}, file_type : {<<>>},
   parent_id : Opt({1})]

RaceGenerateRequests ==
  [project_id : {1}, prompt : Prompts, file_path : {<<"/a.ts">>},
   generation_type : {"file"}]

RaceCreateProjectFileRequests ==
  [project_id : {1}, path : {"/a.ts"}, content : {"x"}, file_type : {"file"},
   parent_id : {Null, 1}]

\* SpecOwnership: two owners' projects are created, edited and deleted, and
\* rows are put under seed directories of either project
OwnershipUpdateProjectFileRequests ==
  [id : FileIdInputs, path : {<<>>}, content : {<<>>}, file_type : {<<>>},
   parent_id : Opt({1, 3})]

TreeCreateProjectRequests ==
  [name : {"P"}, description : {NullText}, user_id : UserIds, metadata : {<<>>}]

TreeCreateProjectFileRequests ==
  [project_id : ProjectIdInputs, path : {""}, content : {"x"},
   file_type : {"file"}, parent_id : {Null, 1}]

TreeUpdateProjectFileRequests ==
  [id : FileIdInputs, path : {<<>>}, content : {<<>>},
   file_type : Opt(FileTypes), parent_id : Opt({Null, 1, 2})]

----------------------------------------------------------------------------
(* The system: requests are served one at a time, each to completion *)

InBounds(d) ==
  /\ d.nextFileId <= MaxFiles + 1
  /\ d.nextProjectId <= MaxProjects + 1
  /\ d.nextUserId <= MaxUsers + 1

Idle == [op |-> "none", status |-> "idle"]

\* a call of handler op with outcome r
Call(op, r) ==
  /\ result = Idle
  /\ InBounds(r.db)
  /\ db' = r.db
  /\ result' = [op |-> op, status |-> r.status]
  /\ UNCHANGED <<clock, pending, client, chat>>

Init ==
  \* two users are stored: one registered with "password1", one whose
  \* password_hash was written without a ':' (it is no salt:hash pair)
  /\ db = [users |-> {[id |-> 1, email |-> "a@x.io",
                        password_hash |-> hashPassword("password1", "5a17"),
                        name |-> "N", created_at |-> 0, updated_at |-> 0],
                       [id |-> 2, email |-> "b@x.io",
                        password_hash |-> <<"invalid-hash-format">>,
                        name |-> "N", created_at |-> 0, updated_at |-> 0]},
           projects |-> {},
           project_files |-> {},
           nextUserId |-> 3,
           nextProjectId |-> 1,
           nextFileId |-> 1]
  /\ clock = 0
  /\ result = Idle
  /\ pending = [s \in Slots |-> NoRequest]
  \* the page is not loaded; nothing is stored in the browser
  /\ client = [mounted |-> FALSE, localStorage |-> NoItem, logins |-> {},
               appState |-> "auth", user |-> Null, currentProject |-> Null]
  /\ chat = NoChat

CreateProject(requests, failures) ==
  \E input \in requests, seedInsertFails \in failures :
    Call("createProject", createProject(db, input, clock, seedInsertFails))

UpdateProject(requests) ==
  \E input \in requests, userId \in UserIds :
    Call("updateProject", updateProject(db, input, userId, clock))

DeleteProject ==
  \E projectId \in ProjectIdInputs, userId \in UserIds :
    Call("deleteProject", deleteProject(db, projectId, userId))

CreateProjectFile(requests) ==
  \E input \in requests, userId \in UserIds :
    Call("createProjectFile", createProjectFile(db, input, userId, clock))

UpdateProjectFile(requests) ==
  \E input \in requests, userId \in UserIds :
    Call("updateProjectFile", updateProjectFile(db, input, userId, clock))

DeleteProjectFile ==
  \E fileId \in FileIdInputs, userId \in UserIds :
    Call("deleteProjectFile", deleteProjectFile(db, fileId, userId))

GenerateWithAi(requests) ==
  \E input \in requests, userId \in UserIds :
    Call("generateWithAi", generateWithAi(db, input, userId, clock))

DeployProject ==
  \E input \in DeploymentRequests, userId \in UserIds :
    Call("deployProject", deployProject(db, input, userId))

GetProjects ==
  \E userId \in UserIds :
    Call("getProjects", getProjects(db, userId))

GetProjectById ==
  \E projectId \in ProjectIdInputs, userId \in UserIds :
    Call("getProjectById", getProjectById(db, projectId, userId))

GetProjectFileById ==
  \E fileId \in FileIdInputs, userId \in UserIds :
    Call("getProjectFileById", getProjectFileById(db, fileId, userId))

GetProjectWithFiles ==
  \E projectId \in ProjectIdInputs, userId \in UserIds :
    Call("getProjectWithFiles", getProjectWithFiles(db, projectId, userId))

GetProjectFiles ==
  \E projectId \in ProjectIdInputs, userId \in UserIds :
    Call("getProjectFiles", getProjectFiles(db, projectId, userId))

\* the outcome goes back to the caller; the next request is then served
Respond ==
  /\ result # Idle
  /\ result' = Idle
  /\ UNCHANGED <<db, clock, pending, client, chat>>

Next ==
  \/ CreateProject(CreateProjectRequests, {FALSE})
  \/ UpdateProject(UpdateProjectRequests)
  \/ DeleteProject
  \/ CreateProjectFile(CreateProjectFileRequests)
  \/ UpdateProjectFile(UpdateProjectFileRequests)
  \/ DeleteProjectFile
  \/ GenerateWithAi(GenerateRequests)
  \/ DeployProject
  \/ GetProjects
  \/ GetProjectById
  \/ GetProjectFileById
  \/ GetProjectWithFiles
  \/ GetProjectFiles
  \/ Respond

Spec == Init /\ [][Next]_vars

NextTree ==
  \/ CreateProject(TreeCreateProjectRequests, {FALSE})
  \/ CreateProjectFile(TreeCreateProjectFileRequests)
  \/ UpdateProjectFile(TreeUpdateProjectFileRequests)
  \/ DeleteProjectFile
  \/ DeleteProject
  \/ Respond

SpecTree == Init /\ [][NextTree]_vars

\* the datastore states reached: those in which the next request is served
\* time passes between requests (new Date() of a later call is later)
Tick ==
  /\ result = Idle
  /\ clock < MaxClock
  /\ clock' = clock + 1
  /\ UNCHANGED <<db, result, pending, client, chat>>

NextClock ==
  \/ CreateProject(ClockCreateProjectRequests, {FALSE})
  \/ UpdateProjectFile(ClockUpdateProjectFileRequests)
  \/ Tick
  \/ Respond

SpecClock == Init /\ [][NextClock]_vars

RegisterUser ==
  \E input \in RegisterUserInputs, salt \in Salts :
    Call("registerUser", registerUser(db, input, salt, clock))

LoginUser ==
  \E input \in LoginUserInputs :
    Call("loginUser", loginUser(db, input, clock))

NextAuth ==
  \/ RegisterUser
  \/ LoginUser
  \/ Respond

SpecAuth == Init /\ [][NextAuth]_vars

NextProjects ==
  \/ CreateProject(ProjectsCreateProjectRequests, {FALSE})
  \/ UpdateProject(ProjectsUpdateProjectRequests)
  \/ DeleteProject
  \/ CreateProjectFile(ProjectsCreateProjectFileRequests)
  \/ DeleteProjectFile
  \/ GetProjectWithFiles
  \/ Respond

SpecProjects == Init /\ [][NextProjects]_vars

\* a request arrives and runs its first statement
Begin(op, inputs) ==
  \E s \in Slots, input \in inputs :
    /\ pending[s] = NoRequest
    /\ LET st == Step(db, NewRequest(op, input, 1), clock)
       IN /\ InBounds(st.db)
          /\ db' = st.db
          /\ pending' = [pending EXCEPT ![s] = st.next]
    /\ UNCHANGED <<clock, result, client, chat>>

\* a request in flight runs its next statement
Continue ==
  \E s \in Slots :
    /\ pending[s] # NoRequest
    /\ LET st == Step(db, pending[s], clock)
       IN /\ InBounds(st.db)
          /\ db' = st.db
          /\ pending' = [pending EXCEPT ![s] = st.next]
    /\ UNCHANGED <<clock, result, client, chat>>

NextRace ==
  \/ CreateProject(RaceCreateProjectRequests, {FALSE})
  \/ Respond
  \/ Begin("updateProjectFile", RaceUpdateProjectFileRequests)
  \/ Begin("generateWithAi", RaceGenerateRequests)
  \/ Begin("createProjectFile", RaceCreateProjectFileRequests)
  \/ Begin("deleteProjectFile", {1, 2})
  \/ Begin("deleteProject", {1})
  \/ Continue

SpecRace == Init /\ [][NextRace]_vars

\* SpecSeed: projects are created while the seed insert may fail
NextSeed ==
  \/ CreateProject(ProjectsCreateProjectRequests, BOOLEAN)
  \/ UpdateProject(ProjectsUpdateProjectRequests)
  \/ DeleteProject
  \/ DeployProject
  \/ GetProjectWithFiles
  \/ Respond

SpecSeed == Init /\ [][NextSeed]_vars

NextOwnership ==
  \/ CreateProject(TreeCreateProjectRequests, {FALSE})
  \/ UpdateProject(UpdateProjectRequests)
  \/ UpdateProjectFile(OwnershipUpdateProjectFileRequests)
  \/ DeleteProject
  \/ Respond

SpecOwnership == Init /\ [][NextOwnership]_vars

\* the client: what happens in the browser leaves the datastore alone
ClientStep(c) ==
  /\ client' = c
  \* ProjectWorkspace, and the AiAssistant in it, is rendered in 'workspace'
  /\ chat' = IF c.appState = "workspace" /\ c.mounted THEN chat ELSE NoChat
  /\ UNCHANGED <<db, clock, result, pending>>

ChatStep(ch) ==
  /\ chat' = ch
  /\ UNCHANGED <<db, clock, result, pending, client>>

\* the page is loaded
AppLoad ==
  /\ ~client.mounted
  /\ ClientStep(useEffectOnLoad([client EXCEPT !.mounted = TRUE]))

\* the page is closed or reloaded: the state of the components is gone,
\* localStorage stays
AppUnload ==
  /\ client.mounted
  /\ ClientStep([client EXCEPT !.mounted = FALSE, !.logins = {},
                               !.appState = "auth", !.user = Null,
                               !.currentProject = Null])

\* AuthPage (rendered in 'auth') sends loginUser or registerUser
SubmitLogin ==
  \E user \in UserIds :
    /\ client.mounted /\ client.appState = "auth"
    /\ user \notin client.logins
    /\ ClientStep([client EXCEPT !.logins = @ \cup {user}])

\* the response arrives and AuthPage calls onLogin(response.user)
LoginResolves ==
  \E user \in client.logins :
    ClientStep(handleLogin([client EXCEPT !.logins = @ \ {user}], user))

\* Navbar (rendered while there is a user): the logout button
Logout ==
  /\ client.mounted /\ client.user # Null
  /\ ClientStep(handleLogout(client))

\* ProjectDashboard (rendered in 'dashboard' while there is a user): a click
\* on a project
ProjectSelect ==
  \E project \in ProjectIdInputs :
    /\ client.mounted /\ client.appState = "dashboard" /\ client.user # Null
    /\ ClientStep(handleProjectSelect(client, project))

\* Navbar in 'workspace': the dashboard button
BackToDashboard ==
  /\ client.mounted /\ client.appState = "workspace" /\ client.user # Null
  /\ ClientStep(handleBackToDashboard(client))

\* ProjectWorkspace: the AI assistant button opens and closes the panel
ToggleAssistant ==
  /\ client.mounted /\ client.appState = "workspace"
  /\ client.user # Null /\ client.currentProject # Null
  /\ ChatStep(IF chat = NoChat THEN NewChat ELSE NoChat)

\* a message is sent; the clock does not go back between the three readings
SendMessage ==
  \E inputMessage \in {"", "hi"} :
    /\ chat # NoChat
    /\ chat.sends < MaxSends
    /\ \E t1, t2, t3 \in chat.time .. (FirstReading + MaxClock) :
         /\ t1 <= t2 /\ t2 <= t3
         /\ ChatStep(handleSendMessage(chat, inputMessage, t1, t2, t3))

\* generateWithAi returns or throws
GenerationSettles ==
  /\ chat # NoChat
  /\ chat.isGenerating
  /\ \/ ChatStep(handleSendMessageSettled(chat, "// Generated", "success"))
     \/ ChatStep(handleSendMessageSettled(chat, "Coming Soon", "error"))

NextClient ==
  \/ AppLoad
  \/ AppUnload
  \/ SubmitLogin
  \/ LoginResolves
  \/ Logout
  \/ ProjectSelect
  \/ BackToDashboard
  \/ ToggleAssistant
  \/ SendMessage
  \/ GenerationSettles

SpecClient == Init /\ [][NextClient]_vars

Served == result = Idle

----------------------------------------------------------------------------
(* Properties.  A property of a handler is stated over every input of the  *)
(* schema and every caller, in every state in which a request can arrive.  *)

\* what the caller observes of an outcome
Seen(r) == [status |-> r.status, value |-> r.value]

\* the datastore without the projects and files of users other than userId
Restrict(d, userId) ==
  LET own == {p \in d.projects : p.user_id = userId}
  IN [d EXCEPT !.projects = own,
               !.project_files =
                  {f \in d.project_files : \E p \in own : p.id = f.project_id}]

Exists(projectId) == \E p \in db.projects : p.id = projectId
FileExists(fileId) == \E f \in db.project_files : f.id = fileId

\* C1: no two project_files rows with the same project_id have the same path
\* (in every state reached by sequentially executed calls)
C1_PathUnique ==
  \A f, g \in db.project_files :
    f.project_id = g.project_id /\ f.path = g.path => f.id = g.id

\* C2: createProjectFile by the owner of the project with a path that a row of
\* the same project has fails with 'File path already exists' and leaves the
\* datastore as it was; when no row of the same project has the path (rows of
\* other projects may have it) the call does not fail with that error
C2_CreatePathConflict ==
  Served =>
    \A input \in CreateProjectFileInputs, userId \in UserIds :
      LET r == createProjectFile(db, input, userId, clock)
          taken == \E f \in db.project_files :
                     f.project_id = input.project_id /\ f.path = input.path
      IN OwnedProjects(db, input.project_id, userId) # {} =>
           /\ taken => r.status = "File path already exists" /\ r.db = db
           /\ ~taken => r.status # "File path already exists"

C2_Witness ==
  /\ result = [op |-> "createProjectFile", status |-> "File path already exists"]
  /\ \E f, g \in db.project_files : f.project_id # g.project_id /\ f.path = g.path

\* C3: createProjectFile with a non-null parent_id (owner calling, path free)
\* succeeds exactly when a row with that id exists in the same project and is
\* a directory; no such row in the project gives 'Parent directory not found',
\* a row of type file gives 'Parent must be a directory', and a failing call
\* leaves the datastore as it was
C3_CreateParentChecked ==
  Served =>
    \A input \in CreateProjectFileInputs, userId \in UserIds :
      LET r == createProjectFile(db, input, userId, clock)
          parents == {f \in db.project_files :
                        f.id = input.parent_id /\ f.project_id = input.project_id}
      IN ( /\ OwnedProjects(db, input.project_id, userId) # {}
           /\ ~\E f \in db.project_files :
                 f.project_id = input.project_id /\ f.path = input.path
           /\ input.parent_id # Null ) =>
           /\ r.status = "ok" <=> \E f \in parents : f.file_type = "directory"
           /\ parents = {} => r.status = "Parent directory not found"
           /\ (\E f \in parents : f.file_type = "file") =>
                 r.status = "Parent must be a directory"
           /\ r.status # "ok" => r.db = db

C3_Witness ==
  /\ result = [op |-> "createProjectFile", status |-> "Parent directory not found"]
  /\ \A fileId \in FileIdInputs : FileExists(fileId)

\* C4: every row with a non-null parent_id references a row that exists, has
\* the same project_id and has file_type = directory
C4_ParentValid ==
  \A f \in db.project_files :
    f.parent_id # Null =>
      \E g \in db.project_files :
        g.id = f.parent_id /\ g.project_id = f.project_id /\ g.file_type = "directory"

\* C5: deleteProjectFile by the owner on a directory D returns true and removes
\* D exactly when no row has parent_id = D; with a child it fails with 'Cannot
\* delete directory that contains files or subdirectories' and every row
\* stays; once the only child is deleted, deleting D succeeds
C5_DeleteDirectory ==
  Served =>
    \A fileId \in FileIdInputs, userId \in UserIds :
      \A D \in {f \in OwnedFiles(db, fileId, userId) : f.file_type = "directory"} :
        LET r == deleteProjectFile(db, fileId, userId)
            kids == {f \in db.project_files : f.parent_id = fileId}
        IN /\ kids = {} =>
                /\ r.status = "ok" /\ r.value = <<TRUE>>
                /\ r.db.project_files = db.project_files \ {D}
           /\ kids # {} =>
                /\ r.status = "Cannot delete directory that contains files or subdirectories"
                /\ r.db = db
           /\ \A c \in kids :
                (kids = {c} /\ ~\E g \in db.project_files : g.parent_id = c.id) =>
                  LET d1 == deleteProjectFile(db, c.id, userId).db
                      r2 == deleteProjectFile(d1, fileId, userId)
                  IN /\ r2.status = "ok"
                     /\ r2.db.project_files = db.project_files \ {c, D}

C5_Witness ==
  /\ result = [op |-> "deleteProjectFile",
               status |-> "Cannot delete directory that contains files or subdirectories"]
  /\ \E f \in db.project_files : f.parent_id # Null

\* C6: for a user u and a project P of another user, updateProjectFile and
\* deleteProjectFile on a file of P, deleteProject(P), generateWithAi and
\* deployProject on P called by u fail with the handler's not-found error and
\* leave the datastore as it was
C6_MutationsGuarded ==
  Served =>
    \A P \in db.projects, userId \in UserIds :
      P.user_id # userId =>
        /\ \A input \in UpdateProjectFileInputs :
             (\E f \in db.project_files : f.id = input.id /\ f.project_id = P.id) =>
               LET r == updateProjectFile(db, input, userId, clock)
               IN r.status = "File not found or access denied" /\ r.db = db
        /\ \A f \in db.project_files :
             f.project_id = P.id =>
               LET r == deleteProjectFile(db, f.id, userId)
               IN r.status = "File not found or access denied" /\ r.db = db
        /\ LET r == deleteProject(db, P.id, userId)
           IN r.status = "Project not found or unauthorized" /\ r.db = db
        /\ \A input \in AiGenerationRequests :
             input.project_id = P.id =>
               LET r == generateWithAi(db, input, userId, clock)
               IN r.status = "Project not found or access denied" /\ r.db = db
        /\ \A input \in DeploymentRequests :
             input.project_id = P.id =>
               LET r == deployProject(db, input, userId)
               IN r.status = "Project not found or access denied" /\ r.db = db

C6_Witness ==
  /\ result = [op |-> "updateProjectFile", status |-> "File not found or access denied"]
  /\ \A fileId \in FileIdInputs : FileExists(fileId)

\* C7: when the target project does not exist or belongs to another user,
\* createProjectFile and updateProject fail with 'Project not found or access
\* denied' and leave the datastore as it was
C7_CreateAndUpdateGuarded ==
  Served =>
    \A userId \in UserIds :
      /\ \A input \in CreateProjectFileInputs :
           (~\E p \in db.projects : p.id = input.project_id /\ p.user_id = userId) =>
             LET r == createProjectFile(db, input, userId, clock)
             IN r.status = "Project not found or access denied" /\ r.db = db
      /\ \A input \in UpdateProjectInputs :
           (~\E p \in db.projects : p.id = input.id /\ p.user_id = userId) =>
             LET r == updateProject(db, input, userId, clock)
             IN r.status = "Project not found or access denied" /\ r.db = db

C7_Witness ==
  /\ result = [op |-> "createProjectFile", status |-> "Project not found or access denied"]
  /\ \A projectId \in ProjectIdInputs : Exists(projectId)

\* C8: for an id that does not exist or belongs to another user,
\* getProjectById, getProjectFileById and getProjectWithFiles return null and
\* getProjectFiles throws 'Project not found or access denied'; and what a
\* user observes through the four reads is the same in the datastore and in
\* the datastore without the other users' projects and files
C8_ReadsHideExistence ==
  Served =>
    \A userId \in UserIds :
      LET mine == Restrict(db, userId)
      IN /\ \A projectId \in ProjectIdInputs :
              /\ (~\E p \in db.projects : p.id = projectId /\ p.user_id = userId) =>
                   /\ Seen(getProjectById(db, projectId, userId)) = Seen(ReturnNull(db))
                   /\ Seen(getProjectWithFiles(db, projectId, userId)) = Seen(ReturnNull(db))
                   /\ Seen(getProjectFiles(db, projectId, userId))
                        = Seen(Throw(db, "Project not found or access denied"))
              /\ Seen(getProjectById(db, projectId, userId))
                   = Seen(getProjectById(mine, projectId, userId))
              /\ Seen(getProjectWithFiles(db, projectId, userId))
                   = Seen(getProjectWithFiles(mine, projectId, userId))
              /\ Seen(getProjectFiles(db, projectId, userId))
                   = Seen(getProjectFiles(mine, projectId, userId))
         /\ \A fileId \in FileIdInputs :
              /\ (~\E f \in db.project_files, p \in db.projects :
                     f.id = fileId /\ p.id = f.project_id /\ p.user_id = userId) =>
                   Seen(getProjectFileById(db, fileId, userId)) = Seen(ReturnNull(db))
              /\ Seen(getProjectFileById(db, fileId, userId))
                   = Seen(getProjectFileById(mine, fileId, userId))

C8_Witness ==
  /\ result = [op |-> "getProjectFileById", status |-> "null"]
  /\ \A fileId \in FileIdInputs : FileExists(fileId)

\* C9: getProjects(userId) returns every stored project whose user_id is
\* userId, each once, and no project of another user
C9_GetProjectsOwnOnly ==
  Served =>
    \A userId \in UserIds :
      LET r == getProjects(db, userId)
          returned == {r.value[1][i] : i \in DOMAIN r.value[1]}
      IN /\ r.status = "ok"
         /\ returned = {p \in db.projects : p.user_id = userId}
         /\ Len(r.value[1]) = Cardinality(returned)

C9_Witness ==
  /\ result = [op |-> "getProjects", status |-> "ok"]
  /\ \E p, q \in db.projects : p.user_id # q.user_id

\* C10: a successful updateProjectFile leaves each of path, content, file_type
\* and parent_id that is absent from the input as it was, never changes id,
\* project_id and created_at, and modifies no row other than the one with
\* the given id
C10_UpdateFrame ==
  Served =>
    \A input \in UpdateProjectFileInputs, userId \in UserIds :
      LET r == updateProjectFile(db, input, userId, clock)
          before == {f \in db.project_files : f.id = input.id}
          after == {f \in r.db.project_files : f.id = input.id}
      IN r.status = "ok" =>
           /\ Cardinality(before) = 1 /\ Cardinality(after) = 1
           /\ \A old \in before, new \in after :
                /\ new.project_id = old.project_id
                /\ new.created_at = old.created_at
                /\ ~Supplied(input.path) => new.path = old.path
                /\ ~Supplied(input.content) => new.content = old.content
                /\ ~Supplied(input.file_type) => new.file_type = old.file_type
                /\ ~Supplied(input.parent_id) => new.parent_id = old.parent_id
           /\ r.db.project_files \ after = db.project_files \ before
           /\ r.db.projects = db.projects
           /\ r.db.users = db.users

C10_Witness ==
  /\ result = [op |-> "updateProjectFile", status |-> "ok"]
  /\ \E f \in db.project_files :
       f.path = "" /\ f.content = "x" /\ f.parent_id # Null

\* C11: a successful updateProjectFile, also one that supplies only id, sets
\* the row's updated_at to the time of the call: the new value is never less
\* than the previous one and is greater when the clock has advanced since
C11_UpdatedAtRefreshed ==
  Served =>
    \A input \in UpdateProjectFileInputs, userId \in UserIds :
      LET r == updateProjectFile(db, input, userId, clock)
          before == {f \in db.project_files : f.id = input.id}
          after == {f \in r.db.project_files : f.id = input.id}
      IN r.status = "ok" =>
           /\ after # {}
           /\ \A old \in before, new \in after :
                /\ new.updated_at = clock
                /\ new.updated_at >= old.updated_at
                /\ clock > old.updated_at => new.updated_at > old.updated_at

C11_Witness ==
  /\ result = [op |-> "updateProjectFile", status |-> "ok"]
  /\ \E f \in db.project_files :
       f.content = "" /\ f.updated_at > f.created_at /\ f.updated_at = clock

\* C12: updateProjectFile by the owner with a supplied path that differs from
\* the row's path and is the path of another row of the same project fails
\* with 'A file with this path already exists in the project' and leaves the
\* datastore as it was; supplying the row's own path is never a conflict
C12_UpdatePathConflict ==
  Served =>
    \A input \in UpdateProjectFileInputs, userId \in UserIds :
      \A old \in OwnedFiles(db, input.id, userId) :
        Supplied(input.path) =>
          LET r == updateProjectFile(db, input, userId, clock)
              others == {f \in db.project_files :
                           /\ f.project_id = old.project_id
                           /\ f.id # old.id
                           /\ f.path = input.path[1]}
          IN /\ (input.path[1] # old.path /\ others # {}) =>
                  /\ r.status = "A file with this path already exists in the project"
                  /\ r.db = db
             /\ input.path[1] = old.path =>
                  r.status # "A file with this path already exists in the project"

\* C13: updateProject by the owner succeeds; each of name, description and
\* metadata that is absent keeps its stored value, a supplied one (null
\* included) is stored, id, user_id and created_at do not change, and the
\* returned row is the row now stored, every other row being as it was
C13_UpdateProjectPartial ==
  Served =>
    \A input \in UpdateProjectInputs, userId \in UserIds :
      \A old \in {p \in db.projects : p.id = input.id /\ p.user_id = userId} :
        LET r == updateProject(db, input, userId, clock)
        IN /\ r.status = "ok"
           /\ \A new \in {r.value[1]} :
                /\ new.name = IF input.name = <<>> THEN old.name ELSE input.name[1]
                /\ new.description = IF input.description = <<>>
                                       THEN old.description ELSE input.description[1]
                /\ new.metadata = IF input.metadata = <<>>
                                    THEN old.metadata ELSE input.metadata[1]
                /\ new.id = old.id
                /\ new.user_id = old.user_id
                /\ new.created_at = old.created_at
                /\ new \in r.db.projects
                /\ r.db.projects \ {new} = db.projects \ {old}
           /\ r.db.project_files = db.project_files
           /\ r.db.users = db.users

C13_Witness ==
  /\ result = [op |-> "updateProject", status |-> "ok"]
  /\ \E p \in db.projects :
       p.name = "Q" /\ p.description = "d" /\ p.metadata = "m"

\* C14: a successful createProject adds exactly one projects row, owned by
\* input.user_id, and exactly two project_files rows of that project, '/src'
\* and '/public', directories with empty content and no parent; for a user
\* that exists the call succeeds unless the datastore fails; for a user_id
\* that does not exist it fails and the datastore stays as it was
C14_CreateProjectSeeds ==
  Served =>
    \A input \in CreateProjectInputs, seedInsertFails \in BOOLEAN :
      LET r == createProject(db, input, clock, seedInsertFails)
          existing == \E u \in db.users : u.id = input.user_id
          added == r.db.project_files \ db.project_files
      IN /\ r.status = "ok" =>
              /\ existing
              /\ \E p \in r.db.projects :
                   /\ p \notin db.projects
                   /\ r.db.projects = db.projects \cup {p}
                   /\ p.user_id = input.user_id
                   /\ p.name = input.name
                   /\ r.value = <<p>>
                   /\ \A f \in added :
                        /\ f.project_id = p.id
                        /\ f.file_type = "directory"
                        /\ f.content = ""
                        /\ f.parent_id = Null
              /\ db.project_files \subseteq r.db.project_files
              /\ Cardinality(added) = 2
              /\ {f.path : f \in added} = {"/src", "/public"}
              /\ r.db.users = db.users
         /\ (existing /\ ~seedInsertFails) => r.status = "ok"
         /\ ~existing => r.status # "ok" /\ r.db = db

C14_Witness ==
  /\ result = [op |-> "createProject", status |-> "ok"]
  /\ \E p, q \in db.projects : p.user_id # q.user_id
  /\ Cardinality(db.project_files) = 4

\* C15: after a successful deleteProject(P, owner) no projects row P and no
\* project_files row of P is stored (directories with children included),
\* and every other project, the files of the other projects and the users
\* are as they were; the owner's call succeeds when no row of another
\* project has its parent in P
C15_DeleteProjectCascade ==
  Served =>
    \A projectId \in ProjectIdInputs, userId \in UserIds :
      LET r == deleteProject(db, projectId, userId)
          others == {f \in db.project_files : f.project_id # projectId}
      IN /\ r.status = "ok" =>
              /\ \E p \in db.projects : p.id = projectId /\ p.user_id = userId
              /\ r.db.projects = {p \in db.projects : p.id # projectId}
              /\ r.db.project_files = others
              /\ r.db.users = db.users
         /\ ( /\ \E p \in db.projects : p.id = projectId /\ p.user_id = userId
              /\ \A f \in others : f.parent_id # Null =>
                    \E g \in others : g.id = f.parent_id ) =>
              r.status = "ok"

C15_Witness ==
  /\ result = [op |-> "deleteProject", status |-> "ok"]
  /\ db.nextProjectId = 3
  /\ Cardinality(db.projects) = 1
  /\ Cardinality(db.project_files) = 2

\* C16: getProjectFiles(projectId, owner) returns exactly the rows of the
\* project, every directory before every file, and the rows of each of the
\* two groups in ascending order of path
C16_DirectoriesFirst ==
  Served =>
    \A projectId \in ProjectIdInputs, userId \in UserIds :
      LET r == getProjectFiles(db, projectId, userId)
      IN r.status = "ok" =>
           LET files == r.value[1]
           IN /\ {files[i] : i \in DOMAIN files}
                   = {f \in db.project_files : f.project_id = projectId}
              /\ \A i, j \in DOMAIN files :
                   i < j =>
                     /\ files[i] # files[j]
                     /\ ~(files[i].file_type = "file" /\ files[j].file_type = "directory")
                     /\ files[i].file_type = files[j].file_type =>
                          PathRank(files[i].path) <= PathRank(files[j].path)

\* C17: for a project of the caller getProjectWithFiles returns the stored
\* project row and a files array that holds each stored row of the project
\* once and no other row; the array is empty when the project has no rows
C17_ProjectWithFilesRoundTrip ==
  Served =>
    \A projectId \in ProjectIdInputs, userId \in UserIds :
      \A P \in {p \in db.projects : p.id = projectId /\ p.user_id = userId} :
        LET r == getProjectWithFiles(db, projectId, userId)
            stored == {f \in db.project_files : f.project_id = projectId}
        IN /\ r.status = "ok"
           /\ r.db = db
           /\ \A v \in {r.value[1]} :
                /\ v.project = P
                /\ {v.files[i] : i \in DOMAIN v.files} = stored
                /\ Len(v.files) = Cardinality(stored)
                /\ stored = {} => v.files = <<>>

C17_Witness ==
  /\ result = [op |-> "getProjectWithFiles", status |-> "ok"]
  /\ \E p, q \in db.projects :
       /\ ~\E f \in db.project_files : f.project_id = p.id
       /\ \E f \in db.project_files : f.project_id = q.id

\* C18: loginUser fails with the same message, 'Invalid email or password',
\* for an unknown email, for a known email with a wrong password and for a
\* known email whose stored password_hash is no salt:hash pair; any two
\* failing calls show the caller the same outcome, and nothing is written
C18_LoginErrorsAlike ==
  Served =>
    /\ \A input \in LoginUserInputs :
         LET r == loginUser(db, input, clock)
             known == {u \in db.users : u.email = input.email}
             Malformed(h) == Len(h) < 2 \/ h[1] = "" \/ h[2] = ""
         IN /\ r.db = db
            /\ known = {} => r.status = "Invalid email or password"
            /\ \A u \in known :
                 /\ Malformed(u.password_hash) =>
                      r.status = "Invalid email or password"
                 /\ (~Malformed(u.password_hash)
                       /\ u.password_hash # hashPassword(input.password, u.password_hash[1])) =>
                      r.status = "Invalid email or password"
                 /\ r.status = "ok" =>
                      u.password_hash = hashPassword(input.password, u.password_hash[1])
    /\ \A i1, i2 \in LoginUserInputs :
         LET r1 == loginUser(db, i1, clock)
             r2 == loginUser(db, i2, clock)
         IN (r1.status # "ok" /\ r2.status # "ok") => Seen(r1) = Seen(r2)

C18_Witness ==
  /\ result = [op |-> "loginUser", status |-> "Invalid email or password"]
  /\ Cardinality(db.users) = MaxUsers

\* C19: registerUser fails with 'Email already exists' and writes nothing when
\* a stored user has the email, and otherwise succeeds and adds exactly one
\* users row, with that email; no two stored users share an email
C19_RegisterUniqueEmail ==
  /\ \A u, v \in db.users : u.email = v.email => u = v
  /\ Served =>
       \A input \in RegisterUserInputs, salt \in Salts :
         LET r == registerUser(db, input, salt, clock)
         IN /\ (\E u \in db.users : u.email = input.email) =>
                 r.status = "Email already exists" /\ r.db = db
            /\ (~\E u \in db.users : u.email = input.email) =>
                 /\ r.status = "ok"
                 /\ db.users \subseteq r.db.users
                 /\ Cardinality(r.db.users) = Cardinality(db.users) + 1
                 /\ \A u \in r.db.users \ db.users :
                      u.email = input.email /\ r.value[1].user = u
                 /\ r.db.projects = db.projects
                 /\ r.db.project_files = db.project_files

C19_Witness ==
  /\ result = [op |-> "registerUser", status |-> "Email already exists"]
  /\ Cardinality(db.users) = MaxUsers

\* C20: generateWithAi by the owner succeeds; it inserts a row exactly when
\* generation_type is 'file', file_path is given and no row of the project
\* has that path: one file row with path = file_path, the returned
\* generated_content as content and no parent; in every other case the
\* project_files rows are as they were; no stored row is ever changed
C20_GenerateSavesOnce ==
  Served =>
    \A input \in AiGenerationRequests, userId \in UserIds :
      (\E p \in db.projects : p.id = input.project_id /\ p.user_id = userId) =>
        LET r == generateWithAi(db, input, userId, clock)
            given == input.file_path # <<>>
            used == /\ given
                    /\ \E f \in db.project_files :
                         f.project_id = input.project_id /\ f.path = input.file_path[1]
            added == r.db.project_files \ db.project_files
        IN /\ r.status = "ok"
           /\ db.project_files \subseteq r.db.project_files
           /\ r.db.projects = db.projects
           /\ r.db.users = db.users
           /\ (input.generation_type = "file" /\ given /\ ~used) =>
                /\ Cardinality(added) = 1
                /\ \A f \in added :
                     /\ f.project_id = input.project_id
                     /\ f.path = input.file_path[1]
                     /\ f.file_type = "file"
                     /\ f.content = r.value[1].generated_content
                     /\ f.parent_id = Null
           /\ ~(input.generation_type = "file" /\ given /\ ~used) => added = {}

\* a request in flight that has passed its path check and writes next
PassedPathCheck(r) ==
  \/ r.op = "generateWithAi" /\ r.pc = "insert"
  \/ r.op = "createProjectFile" /\ r.pc = "insert"
  \/ /\ r.op = "updateProjectFile" /\ r.pc = "update"
     /\ TruthyStr(r.input.path) /\ r.input.path[1] # r.row[1].path

\* the project and the path it writes to
TargetProject(r) ==
  IF r.op = "updateProjectFile" THEN r.row[1].project_id ELSE r.input.project_id

TargetPath(r) ==
  CASE r.op = "generateWithAi" -> r.input.file_path[1]
    [] r.op = "createProjectFile" -> r.input.path
    [] OTHER -> r.input.path[1]

\* the datastore still holds what the write refers to: the project, the row
\* an update changes, the parent it names
WriteApplies(r) ==
  /\ \E p \in db.projects : p.id = TargetProject(r)
  /\ r.op = "updateProjectFile" =>
       /\ \E f \in db.project_files : f.id = r.input.id
       /\ Supplied(r.input.parent_id) /\ r.input.parent_id[1] # Null =>
            \E f \in db.project_files : f.id = r.input.parent_id[1]
  /\ r.op = "createProjectFile" /\ r.input.parent_id # Null =>
       \E f \in db.project_files : f.id = r.input.parent_id

\* C21: when two requests in flight (updateProjectFile path changes,
\* generateWithAi saves, createProjectFile) have both passed the path check
\* for the same project and path before either has written, both writes
\* succeed and two rows of the project share the path
C21_PathRace ==
  \A s, t \in Slots :
    LET r == pending[s]
        q == pending[t]
    IN (/\ s # t
        /\ r # NoRequest /\ q # NoRequest
        /\ PassedPathCheck(r) /\ PassedPathCheck(q)
        /\ TargetProject(r) = TargetProject(q) /\ TargetPath(r) = TargetPath(q)
        /\ ~(r.op = "updateProjectFile" /\ q.op = "updateProjectFile"
             /\ r.input.id = q.input.id)
        /\ WriteApplies(r) /\ WriteApplies(q))
       =>
        LET a == Step(db, r, clock)
            b == Step(a.db, q, clock)
        IN /\ a.status = "ok"
           /\ b.status = "ok"
           /\ \E f, g \in b.db.project_files :
                /\ f.id # g.id
                /\ f.project_id = TargetProject(r) /\ g.project_id = TargetProject(r)
                /\ f.path = TargetPath(r) /\ g.path = TargetPath(r)

\* both requests have written: two rows of a project share a non-empty path
C21_Witness ==
  /\ pending = [s \in Slots |-> NoRequest]
  /\ \E f, g \in db.project_files :
       f.id # g.id /\ f.project_id = g.project_id /\ f.path = g.path /\ f.path = "/a.ts"

\* C22: when another row has been made a child of directory D (by a create
\* with parent_id = D or an updateProjectFile setting parent_id = D) after
\* a deleteProjectFile of D has run its children check and before it has
\* run its delete, the handler does not stop: it runs the delete statement,
\* and what the caller gets is the datastore's foreign key error, not the
\* handler's own
C22_DeleteRace ==
  \A s \in Slots :
    LET r == pending[s]
    IN (/\ r # NoRequest
        /\ r.op = "deleteProjectFile" /\ r.pc = "delete"
        /\ \E f \in db.project_files : f.id = r.input /\ f.file_type = "directory"
        /\ \E g \in ChildrenOf(db, r.input) : g.id # r.input)
       =>
        LET a == Step(db, r, clock)
        IN /\ a.status = DbError
           /\ a.status # "Cannot delete directory that contains files or subdirectories"
           /\ a.db = db

\* a deleteProjectFile of directory D is past its children check, and a row
\* that another request has written since has parent_id = D
C22_Witness ==
  \E s \in Slots :
    /\ pending[s] # NoRequest
    /\ pending[s].op = "deleteProjectFile" /\ pending[s].pc = "delete"
    /\ \E f, g \in db.project_files :
         /\ f.id = pending[s].input /\ f.file_type = "directory"
         /\ g.id # f.id /\ g.parent_id = f.id

\* C28: every project_files row's project_id is the id of a stored project
\* and every project's user_id is the id of a stored user, also when a
\* generateWithAi save or a createProjectFile overlaps a deleteProject of the
\* same project
C28_OwnershipIntegrity ==
  /\ \A f \in db.project_files : \E p \in db.projects : p.id = f.project_id
  /\ \A p \in db.projects : \E u \in db.users : u.id = p.user_id

\* a save or a create has passed its checks and is about to insert, the
\* project has been deleted meanwhile, and the datastore rejects the insert
C28_Witness ==
  \E s \in Slots :
    /\ pending[s] # NoRequest
    /\ pending[s].op \in {"generateWithAi", "createProjectFile"}
    /\ pending[s].pc = "insert"
    /\ ~\E p \in db.projects : p.id = pending[s].input.project_id
    /\ Step(db, pending[s], clock).status = DbError

\* C23: when createProject's project insert succeeds and its seed insert
\* fails, the caller gets the error, the project row stays stored and no
\* seed directory is stored for it; nothing else changes
C23_NoRollback ==
  Served =>
    \A input \in CreateProjectInputs :
      (\E u \in db.users : u.id = input.user_id) =>
        LET r == createProject(db, input, clock, TRUE)
            added == r.db.projects \ db.projects
        IN /\ r.status # "ok"
           /\ r.value = <<>>
           /\ db.projects \subseteq r.db.projects
           /\ Cardinality(added) = 1
           /\ \A p \in added :
                /\ p.id = db.nextProjectId
                /\ p.name = input.name
                /\ p.user_id = input.user_id
                /\ ~\E f \in r.db.project_files : f.project_id = p.id
           /\ r.db.project_files = db.project_files
           /\ r.db.users = db.users

\* a createProject call has failed and has left a project without files
C23_Witness ==
  /\ result = [op |-> "createProject", status |-> DbError]
  /\ \E p \in db.projects : ~\E f \in db.project_files : f.project_id = p.id

\* the path of the input is the path of a row of the project
PathTaken(input) ==
  \E f \in db.project_files : f.project_id = input.project_id /\ f.path = input.path

\* parent_id is given and is not the id of a directory of the project
ParentInvalid(input) ==
  /\ input.parent_id # Null
  /\ ~\E f \in db.project_files :
        /\ f.id = input.parent_id /\ f.project_id = input.project_id
        /\ f.file_type = "directory"

\* C24: createProjectFile reports the first violated precondition in the
\* order ownership, path, parent: a caller who does not own the project gets
\* 'Project not found or access denied' also when the path is taken or the
\* parent is invalid; an owner whose path is taken gets 'File path already
\* exists' also when the parent is invalid; a parent error is reported only
\* to an owner whose path is free
C24_CreateCheckOrder ==
  Served =>
    \A input \in CreateProjectFileInputs, userId \in UserIds :
      LET r == createProjectFile(db, input, userId, clock)
          owner == \E p \in db.projects : p.id = input.project_id /\ p.user_id = userId
      IN /\ ~owner => r.status = "Project not found or access denied"
         /\ owner /\ PathTaken(input) => r.status = "File path already exists"
         /\ r.status \in {"Parent directory not found", "Parent must be a directory"} =>
              owner /\ ~PathTaken(input) /\ ParentInvalid(input)

\* a create has been refused for its path, in a state where a request of an
\* owner has both a taken path and an invalid parent, and a request of a
\* caller who is not the owner has them too
C24_Witness ==
  /\ result = [op |-> "createProjectFile", status |-> "File path already exists"]
  /\ \E input \in CreateProjectFileRequests, userId, other \in UserIds :
       /\ PathTaken(input) /\ ParentInvalid(input)
       /\ \E p \in db.projects : p.id = input.project_id /\ p.user_id = userId
       /\ other # userId

\* the rows stored before and after keep their owner and their project
SameOwnership(d, e) ==
  /\ \A p \in d.projects, q \in e.projects : p.id = q.id => p.user_id = q.user_id
  /\ \A f \in d.project_files, g \in e.project_files :
       f.id = g.id => f.project_id = g.project_id

\* C25: no handler call changes the user_id of a stored project or the
\* project_id of a stored file: a row that is stored before and after a call
\* (ids are serial, never handed out twice) has the same one
C25_OwnershipImmutable ==
  Served =>
    /\ \A input \in CreateProjectInputs, seedInsertFails \in BOOLEAN :
         SameOwnership(db, createProject(db, input, clock, seedInsertFails).db)
    /\ \A userId \in UserIds :
         /\ \A input \in UpdateProjectInputs :
              SameOwnership(db, updateProject(db, input, userId, clock).db)
         /\ \A projectId \in ProjectIdInputs :
              SameOwnership(db, deleteProject(db, projectId, userId).db)
         /\ \A input \in CreateProjectFileInputs :
              SameOwnership(db, createProjectFile(db, input, userId, clock).db)
         /\ \A input \in UpdateProjectFileInputs :
              SameOwnership(db, updateProjectFile(db, input, userId, clock).db)
         /\ \A fileId \in FileIdInputs :
              SameOwnership(db, deleteProjectFile(db, fileId, userId).db)
         /\ \A input \in AiGenerationRequests :
              SameOwnership(db, generateWithAi(db, input, userId, clock).db)
         /\ \A input \in DeploymentRequests :
              SameOwnership(db, deployProject(db, input, userId).db)

\* projects of two owners are stored, rows of both have been updated, one of
\* them to a parent in the other owner's project
C25_Witness ==
  /\ result = [op |-> "updateProjectFile", status |-> "ok"]
  /\ \E p, q \in db.projects : p.user_id # q.user_id
  /\ \E f, g \in db.project_files :
       /\ f.project_id # g.project_id /\ f.parent_id = g.id
       /\ f.updated_at = clock

\* C26: every row with file_type = directory has the empty string as content
\* (in every state reached through the handlers)
C26_DirectoriesEmpty ==
  \A f \in db.project_files : f.file_type = "directory" => f.content = ""

\* following parent_id from the row with that id reaches null within n steps
RECURSIVE ReachesRoot(_, _)
ReachesRoot(id, n) ==
  \/ id = Null
  \/ /\ n > 0
     /\ \E f \in db.project_files : f.id = id /\ ReachesRoot(f.parent_id, n - 1)

\* C27: the parent_id relation is a forest: no row is its own parent, and
\* following parent_id from any row reaches a row with parent_id = null
\* (in every state reached by createProjectFile, updateProjectFile and
\* deleteProjectFile calls)
C27_ParentForest ==
  \A f \in db.project_files :
    /\ f.parent_id # f.id
    /\ ReachesRoot(f.id, Cardinality(db.project_files))

\* C29: in the App, 'workspace' has a current project, 'dashboard' and
\* 'workspace' have a user, 'auth' has neither a user nor a current project,
\* and handleLogout leads to 'auth' with no user stored in localStorage
C29_Navigation ==
  /\ client.appState = "workspace" => client.currentProject # Null
  /\ client.appState \in {"dashboard", "workspace"} => client.user # Null
  /\ client.appState = "auth" => client.user = Null /\ client.currentProject = Null
  /\ LET c == handleLogout(client)
     IN /\ c.appState = "auth"
        /\ c.localStorage = NoItem
        /\ c.user = Null /\ c.currentProject = Null

\* the App is in a workspace, with its user stored, while a login sent
\* earlier from the AuthPage is still to be answered
C29_Witness ==
  /\ client.mounted /\ client.appState = "workspace"
  /\ client.user # Null /\ client.currentProject # Null
  /\ client.localStorage = JSONstringify(client.user)
  /\ client.logins # {}

\* C30: when the generateWithAi request of the panel settles, exactly the
\* placeholder added for it (the last message) gets the response as content
\* and the status; the user's message and all earlier messages stay as they
\* are, whatever Date.now() returned for the ids and for generatingMessageId
C30_OnlyPlaceholderReplaced ==
  (chat # NoChat /\ chat.isGenerating) =>
    \A status \in {"success", "error"} :
      LET before == chat.messages
          after == handleSendMessageSettled(chat, "// Generated", status).messages
          n == Len(before)
      IN /\ Len(after) = n
         /\ \A i \in 1..(n - 1) : after[i] = before[i]
         /\ before[n].content = GeneratingText
         /\ after[n] = [before[n] EXCEPT !.content = "// Generated", !.status = status]

====
